---- MODULE Spec2Model ----
(***************************************************************************)
(* HD44780U LCD driver behind a PCF8574 I2C backpack (lcd44780.c).         *)
(*                                                                         *)
(* The driver's state is its three file-scope variables.  A caller (as in  *)
(* lcd44780test.c) calls one library function at a time; every function    *)
(* runs to completion before the next call.  What a call did is recorded   *)
(* in `trace`: its I2C bus writes (byte and returned status), its sleeps   *)
(* and its stderr messages, in program order.                              *)
(***************************************************************************)
EXTENDS Integers, Sequences, FiniteSets, TLC

VARIABLES bl44780,    \* static char bl44780
          lcdrows,    \* static uint8_t lcdrows
          lcdcols,    \* static uint8_t lcdcols
          pc,         \* position of the caller: "ready" or "returned"
          call,       \* the library call in progress / just returned
          trace,      \* what that call did, in order
          ret,        \* the value that call returned
          setting     \* argument of the latest lcd44780backlight call, -1 if none

vars == <<bl44780, lcdrows, lcdcols, pc, call, trace, ret, setting>>

----------------------------------------------------------------------------
(* Bounds of the model *)

\* longest generated text passed to lcd44780str / lcd44780chr
MaxLen == 2
\* most bus writes that fail during one library call
MaxFaults == 1

----------------------------------------------------------------------------
(* lcd44780.c: error codes, instruction set, backpack pins *)

ROWTOOLOW == -1000
ROWTOOHIGH == -1001
COLTOOLOW == -1003
COLTOOHIGH == -1004

ORIGIN == 1

CLEARDISPLAY == 1
CURSORHOME == 2
ENTRYMODESET == 4
DISPLAYCONTROL == 8
FUNCTIONSET == 32
DDRAMSETADDR == 128

ENTRYINC == 1
ENTRYRIGHT == 0
ENTRYLEFT == 2
BLINKOFF == 0
BLINKON == 1
CURSOROFF == 0
CURSORON == 2
DISPLAYOFF == 0
DISPLAYON == 4
TWOLINE == 8
FOURBIT == 0
EIGHTBIT == 16

BACKLIGHT == 8
ENABLE == 4
READWRITE == 2
REGISTERSET == 1

\* rowstart filled in for a display of 16 columns: the third and fourth rows
\* start at 0x10 and 0x50
rowstart_16Col == <<0, 64, 16, 80>>

\* static uint8_t rowstart[4]; rowstart[r] of the C code is rowstart[r+1] here
rowstart == <<0, 64, 20, 84>>

\* nanosleep arguments, in milliseconds
SLEEP100 == 100
SLEEP50 == 50

\* statuses i2c_write_device returns on failure (pigpio: PI_BAD_HANDLE,
\* PI_I2C_WRITE_FAILED); 0 is success
TransportErrors == {0 - 25, 0 - 82}

----------------------------------------------------------------------------
(* C arithmetic on 8-bit values *)

\* a & b and a | b of two bytes, bit by bit
RECURSIVE AndBits(_, _)
AndBits(a, b) ==
    IF a = 0 \/ b = 0 THEN 0
    ELSE (IF a % 2 = 1 /\ b % 2 = 1 THEN 1 ELSE 0) + 2 * AndBits(a \div 2, b \div 2)

RECURSIVE OrBits(_, _)
OrBits(a, b) ==
    IF a = 0 THEN b
    ELSE IF b = 0 THEN a
    ELSE (IF a % 2 = 1 \/ b % 2 = 1 THEN 1 ELSE 0) + 2 * OrBits(a \div 2, b \div 2)

AndTable == [a \in 0..255 |-> [b \in 0..255 |-> AndBits(a, b)]]
OrTable == [a \in 0..255 |-> [b \in 0..255 |-> OrBits(a, b)]]

\* a & b and a | b of non-negative ints: byte by byte
RECURSIVE BitAnd(_, _)
BitAnd(a, b) ==
    IF a = 0 \/ b = 0 THEN 0
    ELSE AndTable[a % 256][b % 256] + 256 * BitAnd(a \div 256, b \div 256)

RECURSIVE BitOr(_, _)
BitOr(a, b) ==
    IF a = 0 THEN b
    ELSE IF b = 0 THEN a
    ELSE OrTable[a % 256][b % 256] + 256 * BitOr(a \div 256, b \div 256)

\* ~x, seen through the 8 bits a char keeps
BitNot(x) == 255 - (x % 256)

\* x << n
Shl(x, n) == x * (2 ^ n)

\* x >> n, x >= 0
Shr(x, n) == x \div (2 ^ n)

\* conversion of an int to char / uint8_t: the low 8 bits
ToByte(x) == x % 256

----------------------------------------------------------------------------
(* The recorded events of a call *)

BusWrite(data, i) == [ev |-> "write", data |-> data, i |-> i]
Sleep(ms) == [ev |-> "sleep", data |-> ms, i |-> 0]
Stderr(msg, errnum) == [ev |-> "stderr", data |-> msg, i |-> errnum]
\* rowstart[row] has been read, row being the index used
TableRead(row) == [ev |-> "rowstart", data |-> row, i |-> 0]
\* control has entered the engine function fn with the char argument data
Entered(fn, data) == [ev |-> fn, data |-> data % 256, i |-> 0]

IsWrite(e) == e.ev = "write"

\* the bus writes among the events of a run
Writes(run) == SelectSeq(run, IsWrite)

(***************************************************************************)
(* The device behind the handle fd.  `fd` is the set of <<k, status>>      *)
(* pairs saying that the k-th bus write of the call fails with `status`;   *)
(* every other write returns 0.                                            *)
(***************************************************************************)
StatusOf(fd, k) ==
    IF \E f \in fd : f[1] = k THEN (CHOOSE f \in fd : f[1] = k)[2] ELSE 0

\* i2c_write_device(pi, fd, &byte, 1): one byte on the bus, status returned
i2c_write_device(bus, fd, byte) ==
    LET i == StatusOf(fd, Len(Writes(bus)) + 1)
    IN  [bus |-> Append(bus, BusWrite(ToByte(byte), i)), i |-> i]

nanosleep(bus, ms) == Append(bus, Sleep(ms))

----------------------------------------------------------------------------
(* Nibble transfer engine *)

\* lcd44780writecmd8 with the backlight pin hard-wired on: BACKLIGHT instead
\* of bl44780
lcd44780writecmd8_LightOn(bus, pi, fd, data) ==
    LET d1 == ToByte(BitOr(BitOr(BitAnd(Shl(data, 4), 240), BACKLIGHT), ENABLE))
        w1 == i2c_write_device(Append(bus, Entered("lcd44780writecmd8", data)), fd, d1)
        d2 == BitAnd(d1, BitNot(ENABLE))
        w2 == i2c_write_device(w1.bus, fd, d2)
    IN  [bus |-> w2.bus, i |-> w2.i]

\* int lcd44780writecmd8(int pi, int fd, char data)
lcd44780writecmd8(bus, pi, fd, data) ==
    LET d1 == ToByte(BitOr(BitOr(BitAnd(Shl(data, 4), 240), bl44780), ENABLE))
        w1 == i2c_write_device(Append(bus, Entered("lcd44780writecmd8", data)), fd, d1)
        d2 == BitAnd(d1, BitNot(ENABLE))
        w2 == i2c_write_device(w1.bus, fd, d2)
    IN  [bus |-> w2.bus, i |-> w2.i]

\* lcd44780writecmd4 clocking the low nibble in with the wrong variable: the
\* last write sends high instead of low
lcd44780writecmd4_LastHigh(bus, pi, fd, data) ==
    LET high0 == ToByte(BitAnd(data, 240))
        low0  == ToByte(BitAnd(Shl(data, 4), 240))
        high1 == ToByte(BitOr(BitOr(high0, bl44780), ENABLE))
        w1    == i2c_write_device(Append(bus, Entered("lcd44780writecmd4", data)), fd, high1)
        high2 == BitAnd(high1, BitNot(ENABLE))
        w2    == i2c_write_device(w1.bus, fd, high2)
        low1  == ToByte(BitOr(BitOr(low0, bl44780), ENABLE))
        w3    == i2c_write_device(w2.bus, fd, low1)
        w4    == i2c_write_device(w3.bus, fd, high2)
    IN  [bus |-> w4.bus, i |-> w4.i]

\* int lcd44780writecmd4(int pi, int fd, char data)
lcd44780writecmd4(bus, pi, fd, data) ==
    LET high0 == ToByte(BitAnd(data, 240))
        low0  == ToByte(BitAnd(Shl(data, 4), 240))
        high1 == ToByte(BitOr(BitOr(high0, bl44780), ENABLE))
        w1    == i2c_write_device(Append(bus, Entered("lcd44780writecmd4", data)), fd, high1)
        high2 == BitAnd(high1, BitNot(ENABLE))
        w2    == i2c_write_device(w1.bus, fd, high2)
        low1  == ToByte(BitOr(BitOr(low0, bl44780), ENABLE))
        w3    == i2c_write_device(w2.bus, fd, low1)
        low2  == BitAnd(low1, BitNot(ENABLE))
        w4    == i2c_write_device(w3.bus, fd, low2)
    IN  [bus |-> w4.bus, i |-> w4.i]

\* lcd44780writedata raising the wrong backpack pin: READWRITE instead of
\* REGISTERSET
lcd44780writedata_RWPin(bus, pi, fd, data) ==
    LET high0 == ToByte(BitAnd(data, 240))
        low0  == ToByte(BitAnd(Shl(data, 4), 240))
        high1 == ToByte(BitOr(BitOr(BitOr(high0, bl44780), READWRITE), ENABLE))
        w1    == i2c_write_device(Append(bus, Entered("lcd44780writedata", data)), fd, high1)
        high2 == BitAnd(high1, BitNot(ENABLE))
        w2    == i2c_write_device(w1.bus, fd, high2)
        low1  == ToByte(BitOr(BitOr(BitOr(low0, bl44780), READWRITE), ENABLE))
        w3    == i2c_write_device(w2.bus, fd, low1)
        low2  == BitAnd(low1, BitNot(ENABLE))
        w4    == i2c_write_device(w3.bus, fd, low2)
    IN  [bus |-> w4.bus, i |-> w4.i]

\* lcd44780writedata selecting the data register for the high nibble only:
\* REGISTERSET left out of the low nibble
lcd44780writedata_LowNoRS(bus, pi, fd, data) ==
    LET high0 == ToByte(BitAnd(data, 240))
        low0  == ToByte(BitAnd(Shl(data, 4), 240))
        high1 == ToByte(BitOr(BitOr(BitOr(high0, bl44780), REGISTERSET), ENABLE))
        w1    == i2c_write_device(Append(bus, Entered("lcd44780writedata", data)), fd, high1)
        high2 == BitAnd(high1, BitNot(ENABLE))
        w2    == i2c_write_device(w1.bus, fd, high2)
        low1  == ToByte(BitOr(BitOr(low0, bl44780), ENABLE))
        w3    == i2c_write_device(w2.bus, fd, low1)
        low2  == BitAnd(low1, BitNot(ENABLE))
        w4    == i2c_write_device(w3.bus, fd, low2)
    IN  [bus |-> w4.bus, i |-> w4.i]

\* int lcd44780writedata(int pi, int fd, char data)
lcd44780writedata(bus, pi, fd, data) ==
    LET high0 == ToByte(BitAnd(data, 240))
        low0  == ToByte(BitAnd(Shl(data, 4), 240))
        high1 == ToByte(BitOr(BitOr(BitOr(high0, bl44780), REGISTERSET), ENABLE))
        w1    == i2c_write_device(Append(bus, Entered("lcd44780writedata", data)), fd, high1)
        high2 == BitAnd(high1, BitNot(ENABLE))
        w2    == i2c_write_device(w1.bus, fd, high2)
        low1  == ToByte(BitOr(BitOr(BitOr(low0, bl44780), REGISTERSET), ENABLE))
        w3    == i2c_write_device(w2.bus, fd, low1)
        low2  == BitAnd(low1, BitNot(ENABLE))
        w4    == i2c_write_device(w3.bus, fd, low2)
    IN  [bus |-> w4.bus, i |-> w4.i]

----------------------------------------------------------------------------
(* Display operations *)

\* rowstart[row] as the C code reads it: inside the table the entry, outside
\* it (undefined behaviour) whatever byte `pi` lies beyond the table
RowStartRead(pi, row) == IF row \in 0..3 THEN rowstart[row + 1] ELSE pi

\* lcd44780setpos adding the address to the instruction instead of or-ing it
\* in: buf=DDRAMSETADDR+curpos
lcd44780setpos_Plus(bus, pi, fd, row, col) ==
    LET curpos == ToByte(RowStartRead(pi, row) + col)
        buf    == ToByte(DDRAMSETADDR + curpos)
    IN  lcd44780writecmd4(Append(bus, TableRead(row)), pi, fd, buf)

\* int lcd44780setpos(int pi, int fd, int row, int col)
lcd44780setpos(bus, pi, fd, row, col) ==
    LET curpos == ToByte(RowStartRead(pi, row) + col)
        buf    == ToByte(BitOr(DDRAMSETADDR, curpos))
    IN  lcd44780writecmd4(Append(bus, TableRead(row)), pi, fd, buf)

\* void lcd44780error_fprintf(int errnum): the message goes to stderr
lcd44780error_fprintf(bus, errnum) ==
    IF errnum > ROWTOOLOW \/ errnum < COLTOOHIGH
    THEN Append(bus, Stderr(0 - 1, errnum))
    ELSE Append(bus, Stderr(((0 - 1) * errnum) - 1000, errnum))

\* the loop of lcd44780str sending the characters to the instruction
\* register: lcd44780writecmd4 instead of lcd44780writedata
RECURSIVE StrLoop_Cmd(_, _, _, _, _)
StrLoop_Cmd(s, pi, fd, buf, len) ==
    IF s.count < len
    THEN LET w == lcd44780writecmd4(s.bus, pi, fd, buf[s.count + 1])
         IN  StrLoop_Cmd([bus |-> w.bus, i |-> w.i, count |-> s.count + 1],
                         pi, fd, buf, len)
    ELSE [bus |-> s.bus, i |-> s.i]

\* the loop of lcd44780str keeping the first failure: a nonzero i is not
\* overwritten by the status of a later transfer
RECURSIVE StrLoop_FirstError(_, _, _, _, _)
StrLoop_FirstError(s, pi, fd, buf, len) ==
    IF s.count < len
    THEN LET w == lcd44780writedata(s.bus, pi, fd, buf[s.count + 1])
         IN  StrLoop_FirstError([bus |-> w.bus,
                                 i |-> IF s.i # 0 THEN s.i ELSE w.i,
                                 count |-> s.count + 1],
                                pi, fd, buf, len)
    ELSE [bus |-> s.bus, i |-> s.i]

\* the loop of lcd44780str: for (count=0;count<len;count++); s holds the
\* locals i and count and the bus as the loop has left them
RECURSIVE StrLoop(_, _, _, _, _)
StrLoop(s, pi, fd, buf, len) ==
    IF s.count < len
    THEN LET w == lcd44780writedata(s.bus, pi, fd, buf[s.count + 1])
         IN  StrLoop([bus |-> w.bus, i |-> w.i, count |-> s.count + 1],
                     pi, fd, buf, len)
    ELSE [bus |-> s.bus, i |-> s.i]

\* lcd44780str without the test of the upper row bound: the else if branch
\* returning ROWTOOHIGH left out
lcd44780str_NoRowHigh(bus, pi, fd, writebuf, row, col) ==
    IF row < ORIGIN
    THEN [bus |-> lcd44780error_fprintf(bus, ROWTOOLOW), i |-> ROWTOOLOW]
    ELSE IF col < ORIGIN
    THEN [bus |-> lcd44780error_fprintf(bus, COLTOOLOW), i |-> COLTOOLOW]
    ELSE IF col > ORIGIN + lcdcols - 1
    THEN [bus |-> lcd44780error_fprintf(bus, COLTOOHIGH), i |-> COLTOOHIGH]
    ELSE LET len0 == Len(writebuf)
             len  == IF len0 > lcdcols - col + ORIGIN
                     THEN lcdcols - col + ORIGIN ELSE len0
             buf  == SubSeq(writebuf, 1, len)
             p    == lcd44780setpos(bus, pi, fd, row - ORIGIN, col - ORIGIN)
         IN  StrLoop([bus |-> p.bus, i |-> p.i, count |-> 0], pi, fd, buf, len)

\* lcd44780str with the upper row bound off by one: row > ORIGIN+lcdrows
lcd44780str_RowOffByOne(bus, pi, fd, writebuf, row, col) ==
    IF row < ORIGIN
    THEN [bus |-> lcd44780error_fprintf(bus, ROWTOOLOW), i |-> ROWTOOLOW]
    ELSE IF row > ORIGIN + lcdrows
    THEN [bus |-> lcd44780error_fprintf(bus, ROWTOOHIGH), i |-> ROWTOOHIGH]
    ELSE IF col < ORIGIN
    THEN [bus |-> lcd44780error_fprintf(bus, COLTOOLOW), i |-> COLTOOLOW]
    ELSE IF col > ORIGIN + lcdcols - 1
    THEN [bus |-> lcd44780error_fprintf(bus, COLTOOHIGH), i |-> COLTOOHIGH]
    ELSE LET len0 == Len(writebuf)
             len  == IF len0 > lcdcols - col + ORIGIN
                     THEN lcdcols - col + ORIGIN ELSE len0
             buf  == SubSeq(writebuf, 1, len)
             p    == lcd44780setpos(bus, pi, fd, row - ORIGIN, col - ORIGIN)
         IN  StrLoop([bus |-> p.bus, i |-> p.i, count |-> 0], pi, fd, buf, len)

\* lcd44780str truncating to the row length instead of the space left on the
\* row: if (len > lcdcols) len=lcdcols
lcd44780str_TruncToRow(bus, pi, fd, writebuf, row, col) ==
    IF row < ORIGIN
    THEN [bus |-> lcd44780error_fprintf(bus, ROWTOOLOW), i |-> ROWTOOLOW]
    ELSE IF row > ORIGIN + lcdrows - 1
    THEN [bus |-> lcd44780error_fprintf(bus, ROWTOOHIGH), i |-> ROWTOOHIGH]
    ELSE IF col < ORIGIN
    THEN [bus |-> lcd44780error_fprintf(bus, COLTOOLOW), i |-> COLTOOLOW]
    ELSE IF col > ORIGIN + lcdcols - 1
    THEN [bus |-> lcd44780error_fprintf(bus, COLTOOHIGH), i |-> COLTOOHIGH]
    ELSE LET len0 == Len(writebuf)
             len  == IF len0 > lcdcols THEN lcdcols ELSE len0
             buf  == SubSeq(writebuf, 1, len)
             p    == lcd44780setpos(bus, pi, fd, row - ORIGIN, col - ORIGIN)
         IN  StrLoop([bus |-> p.bus, i |-> p.i, count |-> 0], pi, fd, buf, len)

\* int lcd44780str(int pi, int fd, char *writebuf, uint8_t row, uint8_t col)
lcd44780str(bus, pi, fd, writebuf, row, col) ==
    IF row < ORIGIN
    THEN [bus |-> lcd44780error_fprintf(bus, ROWTOOLOW), i |-> ROWTOOLOW]
    ELSE IF row > ORIGIN + lcdrows - 1
    THEN [bus |-> lcd44780error_fprintf(bus, ROWTOOHIGH), i |-> ROWTOOHIGH]
    ELSE IF col < ORIGIN
    THEN [bus |-> lcd44780error_fprintf(bus, COLTOOLOW), i |-> COLTOOLOW]
    ELSE IF col > ORIGIN + lcdcols - 1
    THEN [bus |-> lcd44780error_fprintf(bus, COLTOOHIGH), i |-> COLTOOHIGH]
    ELSE LET len0 == Len(writebuf)
             len  == IF len0 > lcdcols - col + ORIGIN
                     THEN lcdcols - col + ORIGIN ELSE len0
             buf  == SubSeq(writebuf, 1, len)
             p    == lcd44780setpos(bus, pi, fd, row - ORIGIN, col - ORIGIN)
         IN  StrLoop([bus |-> p.bus, i |-> p.i, count |-> 0], pi, fd, buf, len)

\* writebuf[0] of a C string: its first character, the terminating NUL if empty
FirstChar(writebuf) == IF Len(writebuf) = 0 THEN 0 ELSE writebuf[1]

\* lcd44780chr with the upper column bound off by one: col > ORIGIN+lcdcols
lcd44780chr_ColOffByOne(bus, pi, fd, writebuf, row, col) ==
    IF row < ORIGIN
    THEN [bus |-> lcd44780error_fprintf(bus, ROWTOOLOW), i |-> ROWTOOLOW]
    ELSE IF row > ORIGIN + lcdrows - 1
    THEN [bus |-> lcd44780error_fprintf(bus, ROWTOOHIGH), i |-> ROWTOOHIGH]
    ELSE IF col < ORIGIN
    THEN [bus |-> lcd44780error_fprintf(bus, COLTOOLOW), i |-> COLTOOLOW]
    ELSE IF col > ORIGIN + lcdcols
    THEN [bus |-> lcd44780error_fprintf(bus, COLTOOHIGH), i |-> COLTOOHIGH]
    ELSE LET buf0 == FirstChar(writebuf)
             p    == lcd44780setpos(bus, pi, fd, row - ORIGIN, col - ORIGIN)
         IN  lcd44780writedata(p.bus, pi, fd, buf0)

\* lcd44780chr writing its whole input: the loop of lcd44780str over
\* strlen(writebuf) characters instead of the one lcd44780writedata call
lcd44780chr_Whole(bus, pi, fd, writebuf, row, col) ==
    IF row < ORIGIN
    THEN [bus |-> lcd44780error_fprintf(bus, ROWTOOLOW), i |-> ROWTOOLOW]
    ELSE IF row > ORIGIN + lcdrows - 1
    THEN [bus |-> lcd44780error_fprintf(bus, ROWTOOHIGH), i |-> ROWTOOHIGH]
    ELSE IF col < ORIGIN
    THEN [bus |-> lcd44780error_fprintf(bus, COLTOOLOW), i |-> COLTOOLOW]
    ELSE IF col > ORIGIN + lcdcols - 1
    THEN [bus |-> lcd44780error_fprintf(bus, COLTOOHIGH), i |-> COLTOOHIGH]
    ELSE LET p == lcd44780setpos(bus, pi, fd, row - ORIGIN, col - ORIGIN)
         IN  StrLoop([bus |-> p.bus, i |-> p.i, count |-> 0], pi, fd,
                     writebuf, Len(writebuf))

\* int lcd44780chr(int pi, int fd, char *writebuf, uint8_t row, uint8_t col)
lcd44780chr(bus, pi, fd, writebuf, row, col) ==
    IF row < ORIGIN
    THEN [bus |-> lcd44780error_fprintf(bus, ROWTOOLOW), i |-> ROWTOOLOW]
    ELSE IF row > ORIGIN + lcdrows - 1
    THEN [bus |-> lcd44780error_fprintf(bus, ROWTOOHIGH), i |-> ROWTOOHIGH]
    ELSE IF col < ORIGIN
    THEN [bus |-> lcd44780error_fprintf(bus, COLTOOLOW), i |-> COLTOOLOW]
    ELSE IF col > ORIGIN + lcdcols - 1
    THEN [bus |-> lcd44780error_fprintf(bus, COLTOOHIGH), i |-> COLTOOHIGH]
    ELSE LET buf0 == FirstChar(writebuf)
             p    == lcd44780setpos(bus, pi, fd, row - ORIGIN, col - ORIGIN)
         IN  lcd44780writedata(p.bus, pi, fd, buf0)

\* lcd44780clear waiting only for a command that went through: if (i == 0)
\* nanosleep
lcd44780clear_WaitOnSuccess(bus, pi, fd) ==
    LET w == lcd44780writecmd4(bus, pi, fd, CLEARDISPLAY)
    IN  [bus |-> IF w.i = 0 THEN nanosleep(w.bus, SLEEP100) ELSE w.bus, i |-> w.i]

\* int lcd44780clear(int pi, int fd)
lcd44780clear(bus, pi, fd) ==
    LET w == lcd44780writecmd4(bus, pi, fd, CLEARDISPLAY)
    IN  [bus |-> nanosleep(w.bus, SLEEP100), i |-> w.i]

\* int lcd44780home(int pi, int fd)
lcd44780home(bus, pi, fd) ==
    LET w == lcd44780writecmd4(bus, pi, fd, CURSORHOME)
    IN  [bus |-> nanosleep(w.bus, SLEEP50), i |-> w.i]

\* the loop of lcd44780init giving up at the first failed transfer:
\* for (count=1; count<=3 && i==0; count++)
RECURSIVE InitLoop_Abort(_, _, _, _, _)
InitLoop_Abort(r, pi, fd, buf, count) ==
    IF count <= 3 /\ r.i = 0
    THEN LET w == lcd44780writecmd8(r.bus, pi, fd, buf)
         IN  InitLoop_Abort([bus |-> nanosleep(w.bus, SLEEP100), i |-> w.i],
                            pi, fd, buf, count + 1)
    ELSE r

\* the loop of lcd44780init without its delay: no nanosleep after
\* lcd44780writecmd8
RECURSIVE InitLoop_NoWait(_, _, _, _, _)
InitLoop_NoWait(r, pi, fd, buf, count) ==
    IF count <= 3
    THEN LET w == lcd44780writecmd8(r.bus, pi, fd, buf)
         IN  InitLoop_NoWait([bus |-> w.bus, i |-> w.i], pi, fd, buf, count + 1)
    ELSE r

\* the loop of lcd44780init: for (count=1; count<=3; count++)
RECURSIVE InitLoop(_, _, _, _, _)
InitLoop(r, pi, fd, buf, count) ==
    IF count <= 3
    THEN LET w == lcd44780writecmd8(r.bus, pi, fd, buf)
         IN  InitLoop([bus |-> nanosleep(w.bus, SLEEP100), i |-> w.i],
                      pi, fd, buf, count + 1)
    ELSE r

\* lcd44780init with two commands in the other order: display-control off
\* sent before function-set
lcd44780init_DisplayFirst(bus, pi, fd, rows, cols) ==
    LET s0   == nanosleep(bus, SLEEP100)
        buf1 == BitAnd(Shr(BitOr(FUNCTIONSET, EIGHTBIT), 4), 15)
        l    == InitLoop([bus |-> s0, i |-> 0], pi, fd, buf1, 1)
        buf2 == BitAnd(Shr(BitOr(FUNCTIONSET, FOURBIT), 4), 15)
        w4   == lcd44780writecmd8(l.bus, pi, fd, buf2)
        s4   == nanosleep(w4.bus, SLEEP100)
        buf4 == BitOr(BitOr(BitOr(DISPLAYCONTROL, DISPLAYOFF), CURSOROFF), BLINKOFF)
        c1   == lcd44780writecmd4(s4, pi, fd, buf4)
        buf3 == BitOr(BitOr(FUNCTIONSET, FOURBIT), TWOLINE)
        c2   == lcd44780writecmd4(c1.bus, pi, fd, buf3)
        buf5 == BitOr(ENTRYMODESET, ENTRYRIGHT)
        c3   == lcd44780writecmd4(c2.bus, pi, fd, buf5)
        c4   == lcd44780clear(c3.bus, pi, fd)
        buf6 == BitOr(BitOr(BitOr(DISPLAYCONTROL, DISPLAYON), BLINKOFF), CURSOROFF)
        c5   == lcd44780writecmd4(c4.bus, pi, fd, buf6)
    IN  [bus |-> c5.bus, i |-> c5.i,
         lcdrows |-> ToByte(rows), lcdcols |-> ToByte(cols)]

\* int lcd44780init(int pi, int fd, int rows, int cols)
lcd44780init(bus, pi, fd, rows, cols) ==
    LET s0   == nanosleep(bus, SLEEP100)
        buf1 == BitAnd(Shr(BitOr(FUNCTIONSET, EIGHTBIT), 4), 15)
        l    == InitLoop([bus |-> s0, i |-> 0], pi, fd, buf1, 1)
        buf2 == BitAnd(Shr(BitOr(FUNCTIONSET, FOURBIT), 4), 15)
        w4   == lcd44780writecmd8(l.bus, pi, fd, buf2)
        s4   == nanosleep(w4.bus, SLEEP100)
        buf3 == BitOr(BitOr(FUNCTIONSET, FOURBIT), TWOLINE)
        c1   == lcd44780writecmd4(s4, pi, fd, buf3)
        buf4 == BitOr(BitOr(BitOr(DISPLAYCONTROL, DISPLAYOFF), CURSOROFF), BLINKOFF)
        c2   == lcd44780writecmd4(c1.bus, pi, fd, buf4)
        buf5 == BitOr(ENTRYMODESET, ENTRYRIGHT)
        c3   == lcd44780writecmd4(c2.bus, pi, fd, buf5)
        c4   == lcd44780clear(c3.bus, pi, fd)
        buf6 == BitOr(BitOr(BitOr(DISPLAYCONTROL, DISPLAYON), BLINKOFF), CURSOROFF)
        c5   == lcd44780writecmd4(c4.bus, pi, fd, buf6)
    IN  [bus |-> c5.bus, i |-> c5.i,
         lcdrows |-> ToByte(rows), lcdcols |-> ToByte(cols)]

\* lcd44780backlight storing its argument as it is: bl44780=setting
lcd44780backlight_Raw(bus, pi, fd, set) ==
    LET bl == ToByte(set)
        w  == i2c_write_device(bus, fd, bl)
    IN  [bus |-> w.bus, i |-> w.i, bl44780 |-> bl]

\* int lcd44780backlight(int pi, int fd, uint8_t setting)
lcd44780backlight(bus, pi, fd, set) ==
    LET bl == IF set = 0 THEN 0 ELSE BACKLIGHT
        w  == i2c_write_device(bus, fd, bl)
    IN  [bus |-> w.bus, i |-> w.i, bl44780 |-> bl]

\* lcd44780setdisplay taking the blink flag from bit 0 of its argument:
\* cmd|(blink&BLINKON)
lcd44780setdisplay_BlinkBit(bus, pi, fd, mode, blink, cursor) ==
    LET cmd0 == DISPLAYCONTROL
        cmd1 == IF mode = 0 THEN BitOr(cmd0, DISPLAYOFF) ELSE BitOr(cmd0, DISPLAYON)
        cmd2 == BitOr(cmd1, BitAnd(blink, BLINKON))
        cmd3 == IF cursor = 0 THEN BitOr(cmd2, CURSOROFF) ELSE BitOr(cmd2, CURSORON)
    IN  lcd44780writecmd4(bus, pi, fd, cmd3)

\* int lcd44780setdisplay(int pi, int fd, uint8_t mode, uint8_t blink, uint8_t cursor)
lcd44780setdisplay(bus, pi, fd, mode, blink, cursor) ==
    LET cmd0 == DISPLAYCONTROL
        cmd1 == IF mode = 0 THEN BitOr(cmd0, DISPLAYOFF) ELSE BitOr(cmd0, DISPLAYON)
        cmd2 == IF blink = 0 THEN BitOr(cmd1, BLINKOFF) ELSE BitOr(cmd1, BLINKON)
        cmd3 == IF cursor = 0 THEN BitOr(cmd2, CURSOROFF) ELSE BitOr(cmd2, CURSORON)
    IN  lcd44780writecmd4(bus, pi, fd, cmd3)

----------------------------------------------------------------------------
(* The caller: arguments it passes, and the device it talks to *)

\* rows / cols passed to lcd44780init (int; 260 and 258 do not fit uint8_t)
RowArgs == {4, 260}
ColArgs == {2, 258}

\* row / col passed to lcd44780str and lcd44780chr (uint8_t)
RowPos == {0, 1, 2, 3, 4, 5, 255}
ColPos == {0, 1, 2, 3, 255}

\* characters of the generated texts: 'A' and a character above 0x7F
Chars == {65, 163}

\* "Hello World!", the text lcd44780test.c writes first
HelloWorld == <<72, 101, 108, 108, 111, 32, 87, 111, 114, 108, 100, 33>>

Texts == UNION {[1..n -> Chars] : n \in 0..MaxLen}

\* char data of the engine functions, uint8_t setting / mode / blink / cursor
DataArgs == 0..255
\* the char data the caller of the whole library passes to the engine
DataSample == {0, 1, 40, 90, 165, 255}
FlagArgs == {0, 1, 255}
OnOff == {0, 255}

\* positions passed to lcd44780str and lcd44780chr by a caller that sweeps
\* each of row and col (uint8_t) over all its values
PosSweep == ((0..255) \X ColPos) \cup (RowPos \X (0..255))

\* the display layouts of up to 4 rows of up to 20 columns, and the
\* positions then passed to lcd44780chr: every cell, and one step outside
GeomRows == 1..4
GeomCols == 1..20
GeomRowPos == 0..5
GeomColPos == 0..21

\* rows passed to lcd44780init for a display taller than the rowstart table,
\* and the rows and the text then passed to lcd44780chr
TallRows == {5, 6}
TallRowPos == 1..6
TallText == <<65>>

\* the devices that fail at most k of the first n bus writes of a call
RECURSIVE Devices(_, _)
Devices(n, k) ==
    IF k = 0 THEN {{}}
    ELSE LET prev == Devices(n, k - 1)
         IN  prev \cup UNION {
                 {p \cup {<<a, e>>} :
                      a \in {x \in 1..n : \A f \in p : f[1] < x},
                      e \in TransportErrors} : p \in prev}

\* number of bus writes in a run
NWrites(r) == Len(Writes(r.bus))

\* the bytes a read beyond rowstart[3] can yield, for the row of a call
Beyond(row, col) ==
    IF /\ row >= ORIGIN /\ row <= ORIGIN + lcdrows - 1
       /\ col >= ORIGIN /\ col <= ORIGIN + lcdcols - 1
       /\ row - ORIGIN \notin 0..3
    THEN 0..255 ELSE {0}

NoCall == [fn |-> "none"]

Init ==
    /\ bl44780 = BACKLIGHT
    /\ lcdrows = 0
    /\ lcdcols = 0
    /\ pc = "ready"
    /\ call = NoCall
    /\ trace = <<>>
    /\ ret = 0
    /\ setting = 0 - 1

\* the caller's view of a finished call
Returned(c, r) ==
    /\ pc' = "returned"
    /\ call' = c
    /\ trace' = r.bus
    /\ ret' = r.i

\* lcd44780init switching the backlight back on as it saves the layout:
\* bl44780=BACKLIGHT next to lcdrows=rows; lcdcols=cols
CallInit_LightOn ==
    /\ pc = "ready"
    /\ \E rows \in RowArgs, cols \in ColArgs :
         \E fd \in Devices(NWrites(lcd44780init(<<>>, 0, {}, rows, cols)), MaxFaults) :
           LET r == lcd44780init(<<>>, 0, fd, rows, cols)
           IN  /\ Returned([fn |-> "lcd44780init", rows |-> rows, cols |-> cols], r)
               /\ lcdrows' = r.lcdrows
               /\ lcdcols' = r.lcdcols
               /\ bl44780' = BACKLIGHT
               /\ UNCHANGED setting

CallInit ==
    /\ pc = "ready"
    /\ \E rows \in RowArgs, cols \in ColArgs :
         \E fd \in Devices(NWrites(lcd44780init(<<>>, 0, {}, rows, cols)), MaxFaults) :
           LET r == lcd44780init(<<>>, 0, fd, rows, cols)
           IN  /\ Returned([fn |-> "lcd44780init", rows |-> rows, cols |-> cols], r)
               /\ lcdrows' = r.lcdrows
               /\ lcdcols' = r.lcdcols
               /\ UNCHANGED <<bl44780, setting>>

CallStr ==
    /\ pc = "ready"
    /\ \E writebuf \in Texts, row \in RowPos, col \in ColPos :
         \E pi \in Beyond(row, col) :
           \E fd \in Devices(NWrites(lcd44780str(<<>>, pi, {}, writebuf, row, col)),
                             MaxFaults) :
             LET r == lcd44780str(<<>>, pi, fd, writebuf, row, col)
             IN  /\ Returned([fn |-> "lcd44780str", writebuf |-> writebuf,
                              row |-> row, col |-> col], r)
                 /\ UNCHANGED <<bl44780, lcdrows, lcdcols, setting>>

CallChr ==
    /\ pc = "ready"
    /\ \E writebuf \in Texts, row \in RowPos, col \in ColPos :
         \E pi \in Beyond(row, col) :
           \E fd \in Devices(NWrites(lcd44780chr(<<>>, pi, {}, writebuf, row, col)),
                             MaxFaults) :
             LET r == lcd44780chr(<<>>, pi, fd, writebuf, row, col)
             IN  /\ Returned([fn |-> "lcd44780chr", writebuf |-> writebuf,
                              row |-> row, col |-> col], r)
                 /\ UNCHANGED <<bl44780, lcdrows, lcdcols, setting>>

CallClear ==
    /\ pc = "ready"
    /\ \E fd \in Devices(NWrites(lcd44780clear(<<>>, 0, {})), MaxFaults) :
         LET r == lcd44780clear(<<>>, 0, fd)
         IN  /\ Returned([fn |-> "lcd44780clear"], r)
             /\ UNCHANGED <<bl44780, lcdrows, lcdcols, setting>>

CallHome ==
    /\ pc = "ready"
    /\ \E fd \in Devices(NWrites(lcd44780home(<<>>, 0, {})), MaxFaults) :
         LET r == lcd44780home(<<>>, 0, fd)
         IN  /\ Returned([fn |-> "lcd44780home"], r)
             /\ UNCHANGED <<bl44780, lcdrows, lcdcols, setting>>

CallBacklight ==
    /\ pc = "ready"
    /\ \E set \in FlagArgs :
         \E fd \in Devices(NWrites(lcd44780backlight(<<>>, 0, {}, set)), MaxFaults) :
           LET r == lcd44780backlight(<<>>, 0, fd, set)
           IN  /\ Returned([fn |-> "lcd44780backlight", setting |-> set], r)
               /\ bl44780' = r.bl44780
               /\ setting' = set
               /\ UNCHANGED <<lcdrows, lcdcols>>

SetDisplayOf(A) ==
    /\ pc = "ready"
    /\ \E a \in A :
         LET mode == a[1]
             blink == a[2]
             cursor == a[3]
         IN  \E fd \in Devices(NWrites(lcd44780setdisplay(<<>>, 0, {}, mode, blink, cursor)),
                               MaxFaults) :
               LET r == lcd44780setdisplay(<<>>, 0, fd, mode, blink, cursor)
               IN  /\ Returned([fn |-> "lcd44780setdisplay", mode |-> mode,
                                blink |-> blink, cursor |-> cursor], r)
                   /\ UNCHANGED <<bl44780, lcdrows, lcdcols, setting>>

\* the calls of the library's caller: each flag 0, 1 or 255
CallSetDisplay == SetDisplayOf(FlagArgs \X FlagArgs \X FlagArgs)

\* one uint8_t argument over all its values, the other two 0 or 255
SweepSetDisplay ==
    SetDisplayOf((DataArgs \X OnOff \X OnOff) \cup (OnOff \X DataArgs \X OnOff)
                 \cup (OnOff \X OnOff \X DataArgs))

WriteCmd8Of(D) ==
    /\ pc = "ready"
    /\ \E data \in D :
         \E fd \in Devices(NWrites(lcd44780writecmd8(<<>>, 0, {}, data)), MaxFaults) :
           LET r == lcd44780writecmd8(<<>>, 0, fd, data)
           IN  /\ Returned([fn |-> "lcd44780writecmd8", data |-> data], r)
               /\ UNCHANGED <<bl44780, lcdrows, lcdcols, setting>>

WriteCmd4Of(D) ==
    /\ pc = "ready"
    /\ \E data \in D :
         \E fd \in Devices(NWrites(lcd44780writecmd4(<<>>, 0, {}, data)), MaxFaults) :
           LET r == lcd44780writecmd4(<<>>, 0, fd, data)
           IN  /\ Returned([fn |-> "lcd44780writecmd4", data |-> data], r)
               /\ UNCHANGED <<bl44780, lcdrows, lcdcols, setting>>

WriteDataOf(D) ==
    /\ pc = "ready"
    /\ \E data \in D :
         \E fd \in Devices(NWrites(lcd44780writedata(<<>>, 0, {}, data)), MaxFaults) :
           LET r == lcd44780writedata(<<>>, 0, fd, data)
           IN  /\ Returned([fn |-> "lcd44780writedata", data |-> data], r)
               /\ UNCHANGED <<bl44780, lcdrows, lcdcols, setting>>

\* lcd44780setpos called on its own, with every table row and column offset
CallSetPos ==
    /\ pc = "ready"
    /\ \E row \in 0..3, col \in 0..255 :
         \E fd \in Devices(NWrites(lcd44780setpos(<<>>, 0, {}, row, col)), MaxFaults) :
           LET r == lcd44780setpos(<<>>, 0, fd, row, col)
           IN  /\ Returned([fn |-> "lcd44780setpos", row |-> row, col |-> col], r)
               /\ UNCHANGED <<bl44780, lcdrows, lcdcols, setting>>

CallWriteCmd8 == WriteCmd8Of(DataSample)
CallWriteCmd4 == WriteCmd4Of(DataSample)
CallWriteData == WriteDataOf(DataSample)

\* the same calls over every char value
EngineWriteCmd8 == WriteCmd8Of(DataArgs)
EngineWriteCmd4 == WriteCmd4Of(DataArgs)
EngineWriteData == WriteDataOf(DataArgs)

\* the caller takes the returned status and goes on to its next call
Resume ==
    /\ pc = "returned"
    /\ pc' = "ready"
    /\ call' = NoCall
    /\ trace' = <<>>
    /\ ret' = 0
    /\ UNCHANGED <<bl44780, lcdrows, lcdcols, setting>>

Next ==
    \/ CallInit
    \/ CallStr
    \/ CallChr
    \/ CallClear
    \/ CallHome
    \/ CallBacklight
    \/ CallSetDisplay
    \/ CallWriteCmd8
    \/ CallWriteCmd4
    \/ CallWriteData
    \/ Resume

Spec == Init /\ [][Next]_vars

\* a caller that drives the nibble transfer engine only, with every char value
NextEngine ==
    \/ CallBacklight
    \/ EngineWriteCmd8
    \/ EngineWriteCmd4
    \/ EngineWriteData
    \/ Resume

SpecEngine == Init /\ [][NextEngine]_vars

\* a caller that positions the cursor only
NextAddr ==
    \/ CallSetPos
    \/ Resume

SpecAddr == Init /\ [][NextAddr]_vars

\* a caller that sets the display mode only, sweeping each argument
NextDisplay ==
    \/ SweepSetDisplay
    \/ Resume

SpecDisplay == Init /\ [][NextDisplay]_vars

\* lcd44780str at each position of the sweep
SweepStr ==
    /\ pc = "ready"
    /\ \E writebuf \in Texts, pos \in PosSweep :
         LET row == pos[1]
             col == pos[2]
         IN  \E pi \in Beyond(row, col) :
               \E fd \in Devices(NWrites(lcd44780str(<<>>, pi, {}, writebuf, row, col)),
                                 MaxFaults) :
                 LET r == lcd44780str(<<>>, pi, fd, writebuf, row, col)
                 IN  /\ Returned([fn |-> "lcd44780str", writebuf |-> writebuf,
                                  row |-> row, col |-> col], r)
                     /\ UNCHANGED <<bl44780, lcdrows, lcdcols, setting>>

\* lcd44780chr at each position of the sweep
SweepChr ==
    /\ pc = "ready"
    /\ \E writebuf \in Texts, pos \in PosSweep :
         LET row == pos[1]
             col == pos[2]
         IN  \E pi \in Beyond(row, col) :
               \E fd \in Devices(NWrites(lcd44780chr(<<>>, pi, {}, writebuf, row, col)),
                                 MaxFaults) :
                 LET r == lcd44780chr(<<>>, pi, fd, writebuf, row, col)
                 IN  /\ Returned([fn |-> "lcd44780chr", writebuf |-> writebuf,
                                  row |-> row, col |-> col], r)
                     /\ UNCHANGED <<bl44780, lcdrows, lcdcols, setting>>

\* a caller that never calls lcd44780init
NextUninit ==
    \/ SweepStr
    \/ SweepChr
    \/ CallClear
    \/ CallHome
    \/ Resume

SpecUninit == Init /\ [][NextUninit]_vars

\* lcd44780init for each layout, on a device that fails no write
CallInitGeom ==
    /\ pc = "ready"
    /\ \E rows \in GeomRows, cols \in GeomCols :
         LET r == lcd44780init(<<>>, 0, {}, rows, cols)
         IN  /\ Returned([fn |-> "lcd44780init", rows |-> rows, cols |-> cols], r)
             /\ lcdrows' = r.lcdrows
             /\ lcdcols' = r.lcdcols
             /\ UNCHANGED <<bl44780, setting>>

\* lcd44780chr of one character at each position, on the same device
CallChrGeom ==
    /\ pc = "ready"
    /\ \E row \in GeomRowPos, col \in GeomColPos :
         \E pi \in Beyond(row, col) :
           LET r == lcd44780chr(<<>>, pi, {}, TallText, row, col)
           IN  /\ Returned([fn |-> "lcd44780chr", writebuf |-> TallText,
                            row |-> row, col |-> col], r)
               /\ UNCHANGED <<bl44780, lcdrows, lcdcols, setting>>

\* a caller that tries every cell of every layout
NextGeom ==
    \/ CallInitGeom
    \/ CallChrGeom
    \/ Resume

SpecGeom == Init /\ [][NextGeom]_vars

\* lcd44780init for a display of more rows than rowstart has entries
CallInitTall ==
    /\ pc = "ready"
    /\ \E rows \in TallRows :
         \E fd \in Devices(NWrites(lcd44780init(<<>>, 0, {}, rows, 1)), MaxFaults) :
           LET r == lcd44780init(<<>>, 0, fd, rows, 1)
           IN  /\ Returned([fn |-> "lcd44780init", rows |-> rows, cols |-> 1], r)
               /\ lcdrows' = r.lcdrows
               /\ lcdcols' = r.lcdcols
               /\ UNCHANGED <<bl44780, setting>>

\* lcd44780chr of one character in the first column of each of its rows
CallChrTall ==
    /\ pc = "ready"
    /\ \E row \in TallRowPos :
         \E pi \in Beyond(row, 1) :
           \E fd \in Devices(NWrites(lcd44780chr(<<>>, pi, {}, TallText, row, 1)),
                             MaxFaults) :
             LET r == lcd44780chr(<<>>, pi, fd, TallText, row, 1)
             IN  /\ Returned([fn |-> "lcd44780chr", writebuf |-> TallText,
                              row |-> row, col |-> 1], r)
                 /\ UNCHANGED <<bl44780, lcdrows, lcdcols, setting>>

\* a caller with a display of five or six rows
NextTall ==
    \/ CallInitTall
    \/ CallChrTall
    \/ Resume

SpecTall == Init /\ [][NextTall]_vars

----------------------------------------------------------------------------
(* lcd44780test.c: main, from lcd44780init to the last call before         *)
(* lcd44780clearline                                                       *)

\* the string literals of main, byte by byte (the file is UTF-8)
TextLine52 == <<65, 66, 67, 68, 69, 70, 71, 72, 73, 74, 76, 75, 77, 78, 79,
                80, 81, 82, 84, 85>>
TextLine53 == <<86, 87, 88, 89, 90, 48, 49, 50, 51, 52, 53, 54, 55, 56, 57,
                33, 194, 163, 42, 36, 37>>
TextLine54 == <<113, 119, 101, 114, 116, 121, 117, 105, 111, 112, 97, 115,
                100, 103, 104, 106, 107, 108, 122, 120>>

\* the calls main makes inside if (lcd44780init(ipi,fdlcd,4,20) == 0), each
\* with the place it is at and the place of the call after it
MainCalls == <<
    [at |-> "line37", next |-> "line38",
     c |-> [fn |-> "lcd44780str", writebuf |-> HelloWorld, row |-> 1, col |-> 5]],
    [at |-> "line38", next |-> "line40",
     c |-> [fn |-> "lcd44780setdisplay", mode |-> 1, blink |-> 1, cursor |-> 1]],
    [at |-> "line40", next |-> "line42",
     c |-> [fn |-> "lcd44780setdisplay", mode |-> 0, blink |-> 1, cursor |-> 1]],
    [at |-> "line42", next |-> "line44",
     c |-> [fn |-> "lcd44780setdisplay", mode |-> 1, blink |-> 0, cursor |-> 1]],
    [at |-> "line44", next |-> "line46",
     c |-> [fn |-> "lcd44780setdisplay", mode |-> 1, blink |-> 1, cursor |-> 0]],
    [at |-> "line46", next |-> "line48",
     c |-> [fn |-> "lcd44780setdisplay", mode |-> 1, blink |-> 0, cursor |-> 0]],
    [at |-> "line48", next |-> "line50",
     c |-> [fn |-> "lcd44780backlight", setting |-> 0]],
    [at |-> "line50", next |-> "line52",
     c |-> [fn |-> "lcd44780backlight", setting |-> 1]],
    [at |-> "line52", next |-> "line53",
     c |-> [fn |-> "lcd44780str", writebuf |-> TextLine52, row |-> 2, col |-> 1]],
    [at |-> "line53", next |-> "line54",
     c |-> [fn |-> "lcd44780str", writebuf |-> TextLine53, row |-> 3, col |-> 1]],
    [at |-> "line54", next |-> "line56",
     c |-> [fn |-> "lcd44780str", writebuf |-> TextLine54, row |-> 4, col |-> 1]] >>

\* the library function a call record names, run on the device fd
RunCall(c, fd) ==
    CASE c.fn = "lcd44780str" ->
           lcd44780str(<<>>, 0, fd, c.writebuf, c.row, c.col)
      [] c.fn = "lcd44780setdisplay" ->
           lcd44780setdisplay(<<>>, 0, fd, c.mode, c.blink, c.cursor)
      [] c.fn = "lcd44780backlight" ->
           lcd44780backlight(<<>>, 0, fd, c.setting)

InitMain ==
    /\ bl44780 = BACKLIGHT
    /\ lcdrows = 0
    /\ lcdcols = 0
    /\ pc = "line35"
    /\ call = NoCall
    /\ trace = <<>>
    /\ ret = 0
    /\ setting = 0 - 1

\* the call in if (lcd44780init(ipi,fdlcd,4,20) == 0)
MainInit ==
    /\ pc = "line35"
    /\ \E fd \in Devices(NWrites(lcd44780init(<<>>, 0, {}, 4, 20)), MaxFaults) :
         LET r == lcd44780init(<<>>, 0, fd, 4, 20)
         IN  /\ call' = [fn |-> "lcd44780init", rows |-> 4, cols |-> 20]
             /\ trace' = r.bus
             /\ ret' = r.i
             /\ pc' = "line35 returned"
             /\ lcdrows' = r.lcdrows
             /\ lcdcols' = r.lcdcols
             /\ UNCHANGED <<bl44780, setting>>

\* the test of if (lcd44780init(ipi,fdlcd,4,20) == 0): on to the calls
\* inside it, or past them to the clean up and exit
MainBranch ==
    /\ pc = "line35 returned"
    /\ pc' = IF ret = 0 THEN "line37" ELSE "line81"
    /\ call' = NoCall
    /\ trace' = <<>>
    /\ ret' = 0
    /\ UNCHANGED <<bl44780, lcdrows, lcdcols, setting>>

\* the next call of main
MainStep ==
    \E k \in DOMAIN MainCalls :
       /\ pc = MainCalls[k].at
       /\ \E fd \in Devices(NWrites(RunCall(MainCalls[k].c, {})), MaxFaults) :
            LET r == RunCall(MainCalls[k].c, fd)
            IN  /\ call' = MainCalls[k].c
                /\ trace' = r.bus
                /\ ret' = r.i
                /\ pc' = "returned"
                /\ IF MainCalls[k].c.fn = "lcd44780backlight"
                   THEN /\ bl44780' = r.bl44780
                        /\ setting' = MainCalls[k].c.setting
                   ELSE UNCHANGED <<bl44780, setting>>
                /\ UNCHANGED <<lcdrows, lcdcols>>

\* main does not look at the value returned and goes on to its next call
MainResume ==
    \E k \in DOMAIN MainCalls :
       /\ pc = "returned"
       /\ call = MainCalls[k].c
       /\ pc' = MainCalls[k].next
       /\ call' = NoCall
       /\ trace' = <<>>
       /\ ret' = 0
       /\ UNCHANGED <<bl44780, lcdrows, lcdcols, setting>>

NextMain ==
    \/ MainInit
    \/ MainBranch
    \/ MainStep
    \/ MainResume

SpecMain == InitMain /\ [][NextMain]_vars

----------------------------------------------------------------------------
(* Reading a recorded call *)

\* the bus writes of the call that has returned
W == Writes(trace)

\* whether the bit `mask` (a power of two) is set in the byte b
Bit(b, mask) == (b \div mask) % 2 = 1

\* the 8-bit value carried by the four bus writes w[k] .. w[k+3]
Carried(w, k) == (w[k].data \div 16) * 16 + (w[k + 2].data \div 16)

\* the four bus writes w[k] .. w[k+3] frame one 8-bit value: nibble with
\* enable set, the same byte with enable cleared, twice
Framed(w, k) ==
    /\ Bit(w[k].data, ENABLE)
    /\ w[k + 1].data = w[k].data - ENABLE
    /\ Bit(w[k + 2].data, ENABLE)
    /\ w[k + 3].data = w[k + 2].data - ENABLE
    /\ w[k].data % 4 = w[k + 2].data % 4

IsStrOrChr == call.fn \in {"lcd44780str", "lcd44780chr"}
RowValid == call.row >= 1 /\ call.row <= lcdrows
ColValid == call.col >= 1 /\ call.col <= lcdcols
\* lcd44780init has stored a display layout (both are 0 before the first call)
Initialized == lcdrows >= 1 /\ lcdcols >= 1
ValidationErrors == {ROWTOOLOW, ROWTOOHIGH, COLTOOLOW, COLTOOHIGH}

----------------------------------------------------------------------------
(* Claims *)

\* C1: after lcd44780init, a row outside [1, rows] makes lcd44780str and lcd44780chr return
\* ROWTOOLOW (row < 1) or ROWTOOHIGH (row > rows), whatever the text and the
\* column, and nothing is written to the bus.
C1_RowRejected ==
    (IsStrOrChr /\ Initialized /\ ~RowValid) =>
        /\ ret = (IF call.row < 1 THEN ROWTOOLOW ELSE ROWTOOHIGH)
        /\ W = <<>>

\* a rejected row just above the last row of an initialized display
C1_Witness ==
    /\ call.fn = "lcd44780str"
    /\ lcdrows = 4
    /\ call.row = 5
    /\ ret = ROWTOOHIGH
    /\ W = <<>>

\* C2 as stated: after lcd44780init, every column outside [1, cols] yields the column error and
\* no bus write, whatever the row.
C2_ColRejectedAnyRow ==
    (IsStrOrChr /\ Initialized /\ ~ColValid) =>
        /\ ret = (IF call.col < 1 THEN COLTOOLOW ELSE COLTOOHIGH)
        /\ W = <<>>

\* C2, amended: after lcd44780init, with the row inside [1, rows], a column outside [1, cols]
\* yields COLTOOLOW (col < 1) or COLTOOHIGH (col > cols); with any row, a
\* column outside [1, cols] leaves the bus untouched.
C2_ColRejected ==
    (IsStrOrChr /\ Initialized /\ ~ColValid) =>
        /\ RowValid => ret = (IF call.col < 1 THEN COLTOOLOW ELSE COLTOOHIGH)
        /\ W = <<>>

\* a rejected column just right of the last column, on a valid row
C2_Witness ==
    /\ call.fn = "lcd44780chr"
    /\ lcdrows = 4 /\ lcdcols = 2
    /\ call.row = 4 /\ call.col = 3
    /\ ret = COLTOOHIGH
    /\ W = <<>>

\* the smaller of two numbers
Min(a, b) == IF a < b THEN a ELSE b

\* the bus writes w[k] with k in 4g+1 .. 4g+4 all have register-select = rs
GroupRS(w, g, rs) == \A k \in (4 * g + 1)..(4 * g + 4) : (w[k].data % 2) = rs

\* C3: at a valid (row, col) lcd44780str writes min(length, cols - col + 1)
\* data bytes, the leading characters of the text, each as four bus writes;
\* a longer text is cut to that count with no validation error returned and
\* with no second addressing command, a text of exactly that length is
\* written in full.
C3_Truncates ==
    (call.fn = "lcd44780str" /\ RowValid /\ ColValid) =>
        LET n == Min(Len(call.writebuf), lcdcols - call.col + 1)
        IN  /\ Len(W) = 4 + 4 * n
            /\ GroupRS(W, 0, 0)
            /\ \A g \in 1..n :
                 /\ GroupRS(W, g, 1)
                 /\ Framed(W, 4 * g + 1)
                 /\ Carried(W, 4 * g + 1) = call.writebuf[g]
            /\ ret \notin ValidationErrors

\* a text longer than the space left on the row has been cut
C3_Witness ==
    /\ call.fn = "lcd44780str"
    /\ lcdrows = 4 /\ lcdcols = 2
    /\ call.row = 3 /\ call.col = 2
    /\ Len(call.writebuf) = 2
    /\ Len(W) = 8
    /\ ret = 0

\* the calls whose bus writes all go through the 4-bit engine
FourBitCalls ==
    {"lcd44780str", "lcd44780chr", "lcd44780clear", "lcd44780home",
     "lcd44780setdisplay", "lcd44780writecmd4", "lcd44780writedata"}

\* the bus writes of the returned call that follow the switch to 4-bit mode
\* (in lcd44780init the four lcd44780writecmd8 transfers come first)
AfterSwitch ==
    IF call.fn \in FourBitCalls THEN W
    ELSE IF call.fn = "lcd44780init" THEN SubSeq(W, 9, Len(W))
    ELSE <<>>

\* C4: after the switch to 4-bit mode every command or data value is on the
\* bus as four consecutive writes (high nibble with enable set, the same byte
\* with enable cleared, low nibble with enable set, the same byte with enable
\* cleared), high nibble first; and in every call a byte with enable set is
\* immediately followed by the same byte with enable cleared.
C4_NibbleFraming ==
    /\ Len(AfterSwitch) % 4 = 0
    /\ \A g \in 0..((Len(AfterSwitch) \div 4) - 1) : Framed(AfterSwitch, 4 * g + 1)
    /\ (call.fn \in {"lcd44780writecmd4", "lcd44780writedata"}) =>
          /\ Len(W) = 4
          /\ Carried(W, 1) = call.data
    /\ call.fn # "none" =>
          \A k \in 1..Len(W) :
             Bit(W[k].data, ENABLE) =>
                /\ k < Len(W)
                /\ W[k + 1].data = W[k].data - ENABLE

\* a value whose nibbles differ has gone through the 4-bit command path
C4_Witness ==
    /\ call.fn = "lcd44780writecmd4"
    /\ call.data = 165
    /\ Len(W) = 4
    /\ W[1].data \div 16 = 10
    /\ W[3].data \div 16 = 5

\* C5: after lcd44780backlight(0) every byte any later call writes has the
\* backlight bit (0x08) clear, after lcd44780backlight(nonzero) every byte has
\* it set, until the next lcd44780backlight call.
C5_BacklightBit ==
    (call.fn \notin {"none", "lcd44780backlight"}) =>
        /\ setting = 0 => \A k \in 1..Len(W) : ~Bit(W[k].data, BACKLIGHT)
        /\ setting > 0 => \A k \in 1..Len(W) : Bit(W[k].data, BACKLIGHT)

\* the display has been initialized again with the backlight switched off
C5_Witness ==
    /\ call.fn = "lcd44780init"
    /\ setting = 0
    /\ Len(W) = 28
    /\ \A k \in 1..Len(W) : ~Bit(W[k].data, BACKLIGHT)

\* the bytes of a sequence of bus writes, without their statuses
Bytes(w) == [k \in 1..Len(w) |-> w[k].data]

\* C6: when exactly one bus write of a call fails, the call returns that
\* write's transport error, whichever of its bus writes it was
\* (lcd44780writecmd4, lcd44780writedata, lcd44780writecmd8, lcd44780clear,
\* lcd44780home, lcd44780setdisplay, lcd44780str, lcd44780chr).
C6_ErrorPropagated ==
    (call.fn \in FourBitCalls \cup {"lcd44780writecmd8"}) =>
        \A k \in 1..Len(W) :
           (W[k].i # 0 /\ \A j \in 1..Len(W) : j # k => W[j].i = 0) => ret = W[k].i

\* C7: whatever bus writes fail, lcd44780init issues the same 28 bus writes
\* (four lcd44780writecmd8 transfers of two writes, then five commands of four
\* writes) as on a device that never fails, and returns the status of the
\* last of them.
C7_InitRunsThrough ==
    call.fn = "lcd44780init" =>
        /\ Len(W) = 28
        /\ Bytes(W) = Bytes(Writes(lcd44780init(<<>>, 0, {}, call.rows, call.cols).bus))
        /\ \A g \in 0..3 : W[2 * g + 1].data = W[2 * g + 2].data + ENABLE
        /\ \A g \in 0..4 : Framed(W, 9 + 4 * g)
        /\ ret = W[28].i

\* the first transfer of the reset sequence failed, the run went on and
\* returned the success of the last write
C7_Witness ==
    /\ call.fn = "lcd44780init"
    /\ Len(W) = 28
    /\ W[1].i # 0
    /\ W[28].i = 0
    /\ ret = 0

\* the instruction 0x80 | a for an address a, by arithmetic: bit 7 forced on
SetAddress(a) == IF a % 256 >= 128 THEN a % 256 ELSE 128 + (a % 256)

\* C8: at a valid (row, col) the bus writes of lcd44780str are the set-DDRAM-
\* address command for rowstart[row-1] + (col-1), sent with register-select 0,
\* followed by one data transfer per retained character, in text order, every
\* byte of which has register-select 1 (rows 1..4, the rows rowstart covers).
C8_CursorThenData ==
    (call.fn = "lcd44780str" /\ RowValid /\ ColValid /\ call.row <= 4) =>
        LET n == Min(Len(call.writebuf), lcdcols - call.col + 1)
        IN  /\ Len(W) = 4 + 4 * n
            /\ Framed(W, 1)
            /\ GroupRS(W, 0, 0)
            /\ Carried(W, 1) = SetAddress(rowstart[call.row] + (call.col - 1))
            /\ \A g \in 1..n :
                 /\ Framed(W, 4 * g + 1)
                 /\ GroupRS(W, g, 1)
                 /\ Carried(W, 4 * g + 1) = call.writebuf[g]

\* two different characters have been written on the third row
C8_Witness ==
    /\ call.fn = "lcd44780str"
    /\ call.row = 3 /\ call.col = 1
    /\ call.writebuf = <<65, 163>>
    /\ Len(W) = 12
    /\ Carried(W, 1) = 148
    /\ Carried(W, 5) = 65
    /\ Carried(W, 9) = 163

\* the example of C8 in lcd44780test.c: after lcd44780init(4, 20),
\* lcd44780str("Hello World!", 1, 5) has set the cursor to rowstart[0] + 4
\* and sent 48 bus writes more, all with register-select set
HelloWorldWritten ==
    /\ call.fn = "lcd44780str"
    /\ call.writebuf = HelloWorld
    /\ lcdrows = 4 /\ lcdcols = 20
    /\ call.row = 1 /\ call.col = 5
    /\ Len(W) = 52
    /\ Carried(W, 1) = 128 + 0 + 4
    /\ \A k \in 5..52 : Bit(W[k].data, REGISTERSET)

\* C9: for every row index 0..3 and every column index lcd44780setpos sends,
\* through lcd44780writecmd4, the command byte
\* 0x80 | ((rowstart[row] + col) mod 256).
C9_SetPosCommand ==
    call.fn = "lcd44780setpos" =>
        /\ Len(W) = 4
        /\ Framed(W, 1)
        /\ GroupRS(W, 0, 0)
        /\ Carried(W, 1) = SetAddress(rowstart[call.row + 1] + call.col)
        /\ Bytes(W) = Bytes(Writes(lcd44780writecmd4(<<>>, 0, {},
                         SetAddress(rowstart[call.row + 1] + call.col)).bus))

\* an address with bit 7 already set: row index 3, column index 60
C9_Witness ==
    /\ call.fn = "lcd44780setpos"
    /\ call.row = 3 /\ call.col = 60
    /\ Len(W) = 4
    /\ Carried(W, 1) = 144

\* C10: for every char value and either backlight state lcd44780writecmd4 and
\* lcd44780writedata issue four bus writes in the same nibble order; every
\* byte of lcd44780writecmd4 has register-select clear, and the i-th byte of
\* lcd44780writedata is the i-th byte of lcd44780writecmd4 with
\* register-select (0x01) set.
C10_CmdDataDiffer ==
    /\ call.fn = "lcd44780writecmd4" =>
          /\ Len(W) = 4
          /\ \A k \in 1..4 : ~Bit(W[k].data, REGISTERSET)
          /\ Carried(W, 1) = call.data
    /\ call.fn = "lcd44780writedata" =>
          LET c == Writes(lcd44780writecmd4(<<>>, 0, {}, call.data).bus)
          IN  /\ Len(W) = 4
              /\ Len(c) = 4
              /\ \A k \in 1..4 : W[k].data = c[k].data + REGISTERSET
              /\ Carried(W, 1) = call.data

\* a data byte written with the backlight off
C10_Witness ==
    /\ call.fn = "lcd44780writedata"
    /\ call.data = 165
    /\ bl44780 = 0
    /\ Bytes(W) = <<165, 161, 85, 81>>

----------------------------------------------------------------------------
(* Reading the code path of a recorded call *)

EngineFns == {"lcd44780writecmd8", "lcd44780writecmd4", "lcd44780writedata"}
IsEntered(e) == e.ev \in EngineFns

\* the engine functions the returned call went through, with their arguments
Calls == SelectSeq(trace, IsEntered)

\* C11: for every mode, blink and cursor in 0..255 lcd44780setdisplay sends
\* exactly one command, through lcd44780writecmd4, whose value is 0x08, plus
\* 0x04 if mode is nonzero, plus 0x01 if blink is nonzero, plus 0x02 if cursor
\* is nonzero: each flag bit depends only on whether its own argument is zero.
C11_DisplayCommand ==
    call.fn = "lcd44780setdisplay" =>
        LET cmd == 8 + (IF call.mode # 0 THEN 4 ELSE 0)
                     + (IF call.blink # 0 THEN 1 ELSE 0)
                     + (IF call.cursor # 0 THEN 2 ELSE 0)
        IN  /\ Calls = <<Entered("lcd44780writecmd4", cmd)>>
            /\ Len(W) = 4
            /\ Framed(W, 1)
            /\ GroupRS(W, 0, 0)
            /\ Carried(W, 1) = cmd

\* blink switched on by an even value, display and cursor off
C11_Witness ==
    /\ call.fn = "lcd44780setdisplay"
    /\ call.mode = 0 /\ call.blink = 2 /\ call.cursor = 0
    /\ Len(W) = 4
    /\ Carried(W, 1) = 9

\* C12: lcd44780backlight(setting) sets bl44780 to 0x08 if setting is nonzero
\* and to 0x00 if it is zero, performs exactly one bus write, of that byte
\* (enable, register-select and data bits clear), outside the nibble engine,
\* and returns the status of that write.
C12_BacklightWrite ==
    call.fn = "lcd44780backlight" =>
        /\ bl44780 = (IF call.setting # 0 THEN 8 ELSE 0)
        /\ Len(trace) = 1
        /\ Len(W) = 1
        /\ Calls = <<>>
        /\ W[1].data = (IF call.setting # 0 THEN 8 ELSE 0)
        /\ ret = W[1].i

\* the backlight switched on by 255, on a device that fails the write
C12_Witness ==
    /\ call.fn = "lcd44780backlight"
    /\ call.setting = 255
    /\ bl44780 = 8
    /\ Bytes(W) = <<8>>
    /\ W[1].i = 0 - 82
    /\ ret = 0 - 82

\* C13: at every valid (row, col) lcd44780chr issues exactly 8 bus writes:
\* the set-DDRAM-address command for rowstart[row-1] + (col-1), through
\* lcd44780writecmd4, then one lcd44780writedata transfer carrying the first
\* character of its input (the terminating NUL if the input is empty); of a
\* longer input only the first character is written (rows 1..4, the rows
\* rowstart covers).
C13_ChrOneChar ==
    (call.fn = "lcd44780chr" /\ RowValid /\ ColValid /\ call.row <= 4) =>
        LET a == SetAddress(rowstart[call.row] + (call.col - 1))
            c == IF Len(call.writebuf) = 0 THEN 0 ELSE call.writebuf[1]
        IN  /\ Len(W) = 8
            /\ Calls = <<Entered("lcd44780writecmd4", a),
                         Entered("lcd44780writedata", c)>>
            /\ Framed(W, 1)
            /\ GroupRS(W, 0, 0)
            /\ Carried(W, 1) = a
            /\ Framed(W, 5)
            /\ GroupRS(W, 1, 1)
            /\ Carried(W, 5) = c

\* a two-character input in the last cell of the display: one character out
C13_Witness ==
    /\ call.fn = "lcd44780chr"
    /\ lcdrows = 4 /\ lcdcols = 2
    /\ call.row = 4 /\ call.col = 2
    /\ call.writebuf = <<163, 65>>
    /\ Len(W) = 8
    /\ Carried(W, 1) = 213
    /\ Carried(W, 5) = 163

\* C14: lcd44780str returns the validation error when validation fails (the
\* row is tested before the column), and otherwise the status of the last
\* bus write it performed: the last write of the last retained character,
\* or, when the text is empty, the last write of the cursor-positioning
\* command.
C14_StrStatus ==
    call.fn = "lcd44780str" =>
        IF RowValid /\ ColValid
        THEN LET n == Min(Len(call.writebuf), lcdcols - call.col + 1)
             IN  /\ Len(W) = 4 + 4 * n
                 /\ ret = W[4 + 4 * n].i
        ELSE /\ W = <<>>
             /\ ret = (IF call.row < 1 THEN ROWTOOLOW
                       ELSE IF call.row > lcdrows THEN ROWTOOHIGH
                       ELSE IF call.col < 1 THEN COLTOOLOW
                       ELSE COLTOOHIGH)

\* an empty text: the status returned is that of the fourth write of the
\* cursor-positioning command, which failed
C14_Witness ==
    /\ call.fn = "lcd44780str"
    /\ call.writebuf = <<>>
    /\ RowValid /\ ColValid
    /\ Len(W) = 4
    /\ W[4].i = 0 - 82
    /\ ret = 0 - 82

\* a text of two characters: the last write of the second character failed
C14_WitnessLastChar ==
    /\ call.fn = "lcd44780str"
    /\ Len(call.writebuf) = 2
    /\ RowValid /\ ColValid
    /\ Len(W) = 12
    /\ W[12].i = 0 - 25
    /\ ret = 0 - 25

\* C15: the entry-mode-set command lcd44780init sends (its third
\* lcd44780writecmd4 command, between display-off and clear) is the
\* entry-mode-set instruction with the increment flag set, the flag being
\* ENTRYINC (0x01) as lcd44780.c names it or the I/D bit of the HD44780U
\* instruction (0x02, ENTRYLEFT in lcd44780.c).
C15_EntryModeIncrement ==
    call.fn = "lcd44780init" =>
        /\ Len(Calls) = 9
        /\ Calls[6] = Entered("lcd44780writecmd4", DISPLAYCONTROL)
        /\ Calls[8] = Entered("lcd44780writecmd4", CLEARDISPLAY)
        /\ Calls[7].ev = "lcd44780writecmd4"
        /\ Calls[7].data \div 4 = 1
        /\ Bit(Calls[7].data, ENTRYINC) \/ Bit(Calls[7].data, ENTRYLEFT)

IsBusOrEntered(e) == IsWrite(e) \/ IsEntered(e)

\* the returned call without its sleeps and messages: engine entries and bus
\* writes, in program order
Path == SelectSeq(trace, IsBusOrEntered)

\* the n events of p after p[k] are bus writes, p[k] being the entry into fn
Through(p, k, fn, n) ==
    /\ p[k].ev = fn
    /\ \A j \in (k + 1)..(k + n) : IsWrite(p[j])

\* C16: the commands of lcd44780init are on the bus in this order: nibble
\* 0x3 three times and nibble 0x2 once, each through lcd44780writecmd8 (two
\* bus writes), then through lcd44780writecmd4 (four bus writes each)
\* function-set 4-bit two-line (0x28), display-control all off (0x08),
\* entry-mode-set, clear (0x01), display-control display on / cursor off /
\* blink off (0x0C); no lcd44780writecmd4 transfer precedes the fourth
\* lcd44780writecmd8 and no lcd44780writecmd8 follows it.
C16_InitOrder ==
    call.fn = "lcd44780init" =>
        /\ Len(Calls) = 9
        /\ \A k \in 1..3 : Calls[k] = Entered("lcd44780writecmd8", 3)
        /\ Calls[4] = Entered("lcd44780writecmd8", 2)
        /\ Calls[5] = Entered("lcd44780writecmd4", 40)
        /\ Calls[6] = Entered("lcd44780writecmd4", 8)
        /\ Calls[7].ev = "lcd44780writecmd4"
        /\ Calls[7].data \div 4 = 1
        /\ Calls[8] = Entered("lcd44780writecmd4", 1)
        /\ Calls[9] = Entered("lcd44780writecmd4", 12)
        /\ Len(Path) = 37
        /\ \A k \in 0..3 : Through(Path, 3 * k + 1, "lcd44780writecmd8", 2)
        /\ \A g \in 0..4 : Through(Path, 13 + 5 * g, "lcd44780writecmd4", 4)
        /\ Len(W) = 28
        /\ \A k \in 0..2 : W[2 * k + 1].data \div 16 = 3
        /\ W[7].data \div 16 = 2
        /\ \A g \in 0..4 : Carried(W, 9 + 4 * g) = Calls[5 + g].data

\* a complete run on a device that fails nothing: the last bytes on the bus
\* are those of display-control 0x0C with the backlight on
C16_Witness ==
    /\ call.fn = "lcd44780init"
    /\ Len(W) = 28
    /\ \A k \in 1..28 : W[k].i = 0
    /\ Bytes(SubSeq(W, 1, 8)) = <<60, 56, 60, 56, 60, 56, 44, 40>>
    /\ Bytes(SubSeq(W, 25, 28)) = <<12, 8, 204, 200>>
    /\ ret = 0

\* whether the p-th event of the returned call is a bus write
IsWriteAt(p) == IsWrite(trace[p])

\* the place in the trace of the k-th bus write of the returned call (0 for
\* k = 0, the start of the call)
WritePos(k) ==
    IF k = 0 THEN 0
    ELSE SelectSeq([p \in 1..Len(trace) |-> p], IsWriteAt)[k]

\* a sleep of at least ms milliseconds lies after the j-th bus write (after
\* the start of the call if j = 0) and before the k-th
WaitBetween(j, k, ms) ==
    \E p \in (WritePos(j) + 1)..(WritePos(k) - 1) :
        /\ trace[p].ev = "sleep"
        /\ trace[p].data >= ms

\* C17: in lcd44780init a wait of at least 100 ms comes before the first bus
\* write, and a wait of at least 100 ms comes after each of the four
\* lcd44780writecmd8 transfers (bus writes 1-2, 3-4, 5-6, 7-8) before the next
\* bus write; the clear command (bus writes 21-24) is followed by its wait
\* before the final display-on command (bus writes 25-28) is written.
C17_InitWaits ==
    call.fn = "lcd44780init" =>
        /\ Len(W) = 28
        /\ WaitBetween(0, 1, 100)
        /\ \A g \in 1..4 : WaitBetween(2 * g, 2 * g + 1, 100)
        /\ WaitBetween(24, 25, 100)
        /\ Carried(W, 21) = CLEARDISPLAY

\* the fourth lcd44780writecmd8 transfer failed and was still waited for
C17_Witness ==
    /\ call.fn = "lcd44780init"
    /\ Len(W) = 28
    /\ W[8].i # 0
    /\ WaitBetween(8, 9, 100)
    /\ Len(SelectSeq(trace, LAMBDA e : e.ev = "sleep")) = 6

\* the returned call sent the one command cmd through lcd44780writecmd4, as
\* four bus writes, and then slept at least ms milliseconds, the sleep being
\* its last step; it returned the status of the fourth write
CommandThenWait(cmd, ms) ==
    /\ Calls = <<Entered("lcd44780writecmd4", cmd)>>
    /\ Len(W) = 4
    /\ Framed(W, 1)
    /\ GroupRS(W, 0, 0)
    /\ Carried(W, 1) = cmd
    /\ Len(trace) = 6
    /\ trace[6].ev = "sleep"
    /\ trace[6].data >= ms
    /\ ret = W[4].i

\* C18: lcd44780clear issues exactly the 4 bus writes of command 0x01
\* through lcd44780writecmd4 and then waits at least 100 ms before it
\* returns; lcd44780home issues exactly the 4 bus writes of command 0x02 and
\* then waits at least 50 ms; in both the wait comes after the writes even
\* when a write failed, and the status returned is that of the last write.
C18_ClearHomeWait ==
    /\ call.fn = "lcd44780clear" => CommandThenWait(1, 100)
    /\ call.fn = "lcd44780home" => CommandThenWait(2, 50)

\* lcd44780clear whose last bus write failed: the wait was made all the same
C18_Witness ==
    /\ call.fn = "lcd44780clear"
    /\ Len(W) = 4
    /\ W[4].i = 0 - 25
    /\ ret = 0 - 25
    /\ trace[Len(trace)] = Sleep(100)

\* lcd44780home whose second bus write failed: waited, and returned 0
C18_WitnessHome ==
    /\ call.fn = "lcd44780home"
    /\ Len(W) = 4
    /\ W[2].i = 0 - 82
    /\ ret = 0
    /\ trace[Len(trace)] = Sleep(50)

\* one step of the caller keeps what it must of the driver state
FrameStep ==
    /\ bl44780' # bl44780 => call'.fn = "lcd44780backlight"
    /\ (lcdrows' # lcdrows \/ lcdcols' # lcdcols) => call'.fn = "lcd44780init"
    /\ (call'.fn \in {"lcd44780str", "lcd44780chr"} /\ ret' \in ValidationErrors) =>
          /\ UNCHANGED <<bl44780, lcdrows, lcdcols>>
          /\ Writes(trace') = <<>>
    /\ (call'.fn = "lcd44780init" /\ bl44780 = 0) =>
          \A k \in 1..Len(Writes(trace')) : ~Bit(Writes(trace')[k].data, BACKLIGHT)

\* C19: bl44780 persists across calls: only lcd44780backlight changes it
\* (lcd44780init, lcd44780clear, lcd44780home, lcd44780setdisplay, lcd44780str
\* and lcd44780chr leave it as it is, so a display initialized again after
\* lcd44780backlight(0) still writes every byte with the backlight bit
\* clear); lcdrows and lcdcols are changed by lcd44780init only; a
\* lcd44780str or lcd44780chr call rejected by validation changes no driver
\* state.
C19_Frame == [][FrameStep]_vars

\* a display initialized again, to 4 rows of 2, with the backlight off
C19_Witness ==
    /\ call.fn = "lcd44780init"
    /\ call.rows = 260
    /\ setting = 0
    /\ bl44780 = 0
    /\ lcdrows = 4 /\ lcdcols = 2
    /\ Bytes(SubSeq(W, 25, 28)) = <<4, 0, 196, 192>>

\* C20: the lookup in rowstart is bounded by the table: for every rows value
\* passed to lcd44780init and every row that passes the validation of
\* lcd44780str / lcd44780chr, the index row-1 used to read rowstart lies in
\* 0..3 (the table has exactly 4 entries).
C20_IndexInTable ==
    \A p \in 1..Len(trace) :
        trace[p].ev = "rowstart" => trace[p].data \in 0..3

\* the read past the table happening: row 5 of a display initialized with 5
\* rows passed validation, and the address sent came from beyond rowstart[3]
BeyondTableRead ==
    /\ call.fn = "lcd44780chr"
    /\ lcdrows = 5
    /\ call.row = 5
    /\ ret = 0
    /\ Len(W) = 8
    /\ \E p \in 1..Len(trace) : trace[p] = TableRead(4)

\* C21: before lcd44780init has ever been called (lcdrows = lcdcols = 0)
\* every lcd44780str and lcd44780chr call, for any row and col in 0..255, is
\* rejected with a row error (ROWTOOLOW for row 0, ROWTOOHIGH otherwise) and
\* performs no bus write: it enters no engine function, and all it does is
\* print the message.
C21_UninitRejects ==
    (IsStrOrChr /\ lcdrows = 0 /\ lcdcols = 0) =>
        /\ ret = (IF call.row = 0 THEN ROWTOOLOW ELSE ROWTOOHIGH)
        /\ W = <<>>
        /\ Calls = <<>>
        /\ trace = <<Stderr(IF call.row = 0 THEN 0 ELSE 1, ret)>>

\* the first cell of any display, written to before lcd44780init
C21_Witness ==
    /\ call.fn = "lcd44780str"
    /\ lcdrows = 0 /\ lcdcols = 0
    /\ call.row = 1 /\ call.col = 1
    /\ call.writebuf = <<65>>
    /\ ret = ROWTOOHIGH
    /\ W = <<>>

\* the same for the last row and column a uint8_t can name
C21_WitnessLast ==
    /\ call.fn = "lcd44780chr"
    /\ lcdrows = 0 /\ lcdcols = 0
    /\ call.row = 255 /\ call.col = 255
    /\ ret = ROWTOOHIGH
    /\ W = <<>>

\* C22: in any sequence of calls with any arguments, every byte written to
\* the bus has the read/write bit (0x02) clear: the driver never puts the
\* controller in read mode.
C22_NeverRead ==
    \A k \in 1..Len(W) : ~Bit(W[k].data, READWRITE)

\* the character 0xFF written with the backlight on: every pin of the
\* backpack but read/write has been raised
C22_Witness ==
    /\ call.fn = "lcd44780writedata"
    /\ call.data = 255
    /\ bl44780 = BACKLIGHT
    /\ Bytes(W) = <<253, 249, 253, 249>>

\* the value of the command lcd44780setpos sends for the position (row, col)
\* of lcd44780str / lcd44780chr
AddressSent(row, col) ==
    Carried(Writes(lcd44780setpos(<<>>, 0, {}, row - ORIGIN, col - ORIGIN).bus), 1)

\* C23: for every layout of 1..4 rows and 1..20 columns, the DDRAM address
\* rowstart[row-1] + (col-1) of an accepted (row, col) is at most 0x7F, so
\* that it goes unchanged into the low 7 bits of the command sent, and no
\* other accepted position of the layout has the same address or command.
C23_AddressFits ==
    (call.fn = "lcd44780chr" /\ lcdrows \in 1..4 /\ lcdcols \in 1..20
        /\ RowValid /\ ColValid) =>
        LET a == rowstart[call.row] + (call.col - 1)
        IN  /\ a <= 127
            /\ Len(W) = 8
            /\ Carried(W, 1) = 128 + a
            /\ \A r2 \in 1..lcdrows, c2 \in 1..lcdcols :
                 <<r2, c2>> # <<call.row, call.col>> =>
                    /\ rowstart[r2] + (c2 - 1) # a
                    /\ AddressSent(r2, c2) # Carried(W, 1)

\* the last cell of the largest layout: address 0x54 + 19
C23_Witness ==
    /\ call.fn = "lcd44780chr"
    /\ lcdrows = 4 /\ lcdcols = 20
    /\ call.row = 4 /\ call.col = 20
    /\ ret = 0
    /\ Carried(W, 1) = 231

====
